---- MODULE Spec2Model ----
(***************************************************************************)
(* AudioSource (media/libstagefright/AudioSource.cpp): the capture source  *)
(* that turns the AudioRecord stream into timestamped MediaBuffers.        *)
(*                                                                         *)
(* Threads: a control thread (start, stop, getMaxAmplitude), a reader      *)
(* thread (read), the consumer returning buffers, and the AudioRecord      *)
(* callback thread (dataCallbackTimestamp).  mLock is the object's mutex;  *)
(* read() holds it from entry to return, one loop iteration per step.      *)
(***************************************************************************)
EXTENDS Integers, Sequences, FiniteSets, TLC

(* ------------------------------ bounds -------------------------------- *)
MaxSessions == 1
MaxProduced == 2
MaxLostReports == 2
MaxPolls == 3
MaxDeviceReads == 2
MaxRestarts == 2

(* ------------------------- program constants -------------------------- *)
\* AudioSource.h (not among the sources): enum { kMaxBufferSize, ... }
kMaxBufferSize == 2048
kAutoRampDurationUs == 700000
kAutoRampStartUs == 1000000
\* skipFrame: the safe guard of line 196 (1E6)
kSkipLimitUs == 1000000

OK == "OK"
UNKNOWN_ERROR == "UNKNOWN_ERROR"
NO_INIT == "NO_INIT"
\* ReadOptions without and with kSkipFrame_Option
NoSkip == [has |-> FALSE, us |-> 0]
SkipTo(t) == [has |-> TRUE, us |-> t]
\* *out = NULL (line 245); buffers are numbered from 1
NoBuffer == 0

\* read() before its first pass through the loop
NoPass == [deviceRead |-> FALSE, n |-> 0, err |-> 0, timestampUs |-> 0,
           pass |-> 0]

(* --------------------------- input domains ---------------------------- *)
SampleRates == {44100}
ChannelCounts == {1, 2}
LatenciesMs == {100}
\* the clock, and the kKeyTime start hints handed to start() (0: none,
\* which leaves mStartTimeUs 0 as a hint of 0 does)
ClockValuesUs == {5000000, 5060000}
StartClockUs == 5000000
StartHints == {0, 5030000}
\* what getInputFramesLost() may answer
LostFrameCounts == {0, 100, 2101}
\* results of the blocking AudioRecord::read
DeviceReadResults == {0, 2048}
\* sizes of the AudioRecord::Buffer handed to the callback
CallbackSizes == {0, 4}
\* a sample value standing for the content of one device buffer
SampleValues == {300}
\* kSkipFrame_Option values
SkipOptions == {NoSkip}
\* kSkipFrame_Option targets: reached by the first buffer's data after a
\* short loss (110000), and 999999, 1000000 and 1000001 us past the first
\* buffer's timestamp of a session with 100 ms latency and no start time
SkipRequests == {NoSkip, SkipTo(110000), SkipTo(1123218), SkipTo(1123219),
                 SkipTo(1123220)}
\* the property media.stagefright.record-stats
RecordStatsValues == {TRUE}
\* samples of a session that has left the mute and ramp behind
PollSampleValues == {300, -32768}
\* reads of kMaxBufferSize bytes that take a session past the ramp
\* (kAutoRampStartUs + kAutoRampDurationUs of audio, lines 342-345)
ReadsBefore == 74

\* what an uninitialized int16_t / bool member may hold
UninitAmplitudes == {0, 77}

VARIABLES
    \* AudioSource members
    mInitCheck, mStarted, mCollectStats, mSampleRate,
    mStartTimeUs, mPrevSampleTimeUs, mInitialReadTimeUs,
    mTotalLostFrames, mPrevLostBytes, mNumFramesReceived,
    mNumClientOwnedBuffers, mBuffersReceived,
    mTrackMaxAmplitude, mMaxAmplitude,
    mGroup,          \* 0 = NULL, else the id of the MediaBufferGroup
    mLock,           \* who holds the mutex: "none", "read", "stop"
    \* the MediaBufferGroup of the session and the consumer
    poolFree,        \* the group's single buffer is in the pool
    held,            \* groups whose buffer the consumer owns
    \* AudioRecord
    record,
    \* threads
    readPc, readTimeUs, readOptions, stopPc,
    readLocals,      \* read(): n, err and timestampUs of the last pass of
                     \* its loop, and the parity of the passes made
    \* a getMaxAmplitude() call in progress (it takes no lock)
    ampPc,           \* "idle", "activated" (line 482), "loaded" (line 483)
    ampValue,        \* its local `value`
    \* clock: the last systemTime() / 1000 read
    now,
    \* observation of calls and produced buffers
    ret,             \* the last start(), stop() or read() that returned
    produced,        \* the buffers produced so far, in order
    spurious,        \* a callback was dropped as spurious since start()
    lastAmplitude,   \* what the last getMaxAmplitude() returned
    ampCalls,        \* getMaxAmplitude() calls returned since start()
    peakSince,       \* largest |sample| read() delivered since the last
                     \* call returned
    owedPeak,        \* largest value trackMaxAmplitude() took that no call
                     \* has returned yet
    ampClean,        \* no read() or start() ran during the call in progress
    aborted          \* a CHECK failed or the process crashed

objVars == <<mInitCheck, mStarted, mCollectStats, mSampleRate,
             mStartTimeUs, mPrevSampleTimeUs, mInitialReadTimeUs,
             mTotalLostFrames, mPrevLostBytes, mNumFramesReceived,
             mNumClientOwnedBuffers, mBuffersReceived,
             mTrackMaxAmplitude, mMaxAmplitude, mGroup, mLock>>
timeVars == <<mStartTimeUs, mPrevSampleTimeUs, mInitialReadTimeUs>>
lossVars == <<mTotalLostFrames, mPrevLostBytes>>
ampVars == <<mTrackMaxAmplitude, mMaxAmplitude>>
poolVars == <<poolFree, held>>
readVars == <<readPc, readTimeUs, readOptions, readLocals>>
pollGhosts == <<ampCalls, peakSince, owedPeak, ampClean>>
pollVars == <<lastAmplitude, ampPc, ampValue, pollGhosts>>
obsVars == <<ret, produced, spurious, pollVars, aborted>>
vars == <<objVars, poolVars, record, readVars, stopPc, now, obsVars>>

(* ------------------------------ helpers ------------------------------- *)

\* (1000000LL * samples + half) / rate in int64_t, evaluated without
\* leaving the range of the model checker's integers
MulMillionDiv(samples, half, rate) ==
    LET y == 1000 * samples
        q1 == y \div rate
        r1 == y % rate
    IN 1000 * q1 + ((1000 * r1 + half) \div rate)

\* mutant: the duration truncated instead of rounded
RoundedDurationUs_Truncated(numSamples, rate) ==
    MulMillionDiv(numSamples, 0, rate)

\* lines 301-302 and 448-449: duration of numSamples, rounded to nearest
RoundedDurationUs(numSamples, rate) ==
    MulMillionDiv(numSamples, rate \div 2, rate)

\* line 333: (1000000LL * n >> 1) / sampleRate
recordDurationUs(n, rate) ==
    MulMillionDiv(n, 0, 2 * rate)


(* ------------------------------- Init --------------------------------- *)
\* State after AudioSource::AudioSource (lines 51-77).  mStartTimeUs and
\* mInitialReadTimeUs are not initialized there, and are read only after
\* start() has assigned them; mTrackMaxAmplitude and mMaxAmplitude are not
\* initialized either and getMaxAmplitude() may read them before start().
Init ==
    /\ mInitCheck \in {OK, NO_INIT}
    /\ mStarted = FALSE
    /\ mCollectStats = FALSE
    /\ mSampleRate \in SampleRates
    /\ mStartTimeUs = 0
    /\ mPrevSampleTimeUs = 0
    /\ mInitialReadTimeUs = 0
    /\ mTotalLostFrames = 0
    /\ mPrevLostBytes = 0
    /\ mNumFramesReceived = 0
    /\ mNumClientOwnedBuffers = 0
    /\ mBuffersReceived = <<>>
    /\ mTrackMaxAmplitude \in BOOLEAN
    /\ mMaxAmplitude \in UninitAmplitudes
    /\ mGroup = 0
    /\ mLock = "none"
    /\ poolFree = FALSE
    /\ held = {}
    /\ \E ch \in ChannelCounts, lat \in LatenciesMs, stats \in RecordStatsValues :
          record = [active |-> FALSE, position |-> 0,
                    latency |-> lat, channels |-> ch,
                    startCmds |-> 0, stopCmds |-> 0,
                    lostReports |-> 0,
                    recordStats |-> stats]
    /\ readPc = "idle"
    /\ readTimeUs = 0
    /\ readOptions = NoSkip
    /\ readLocals = NoPass
    /\ stopPc = "idle"
    /\ now = StartClockUs
    /\ ret = [op |-> "none", status |-> OK, out |-> NoBuffer, value |-> 0]
    /\ produced = <<>>
    /\ spurious = FALSE
    /\ lastAmplitude = 0
    /\ ampPc = "idle"
    /\ ampValue = 0
    /\ ampCalls = 0
    /\ peakSince = 0
    /\ owedPeak = 0
    /\ ampClean = TRUE
    /\ aborted = "no"

Running == aborted = "no"

(* --------------------------- AudioRecord ------------------------------ *)
\* AudioRecord::frameSize(): 16-bit PCM, channelCount channels
frameSize == 2 * record.channels

\* AudioRecord::getInputFramesLost() answering framesLost: the frames
\* the device dropped since the last call
getInputFramesLost(framesLost) ==
    [record EXCEPT !.lostReports = @ + (IF framesLost > 0 THEN 1 ELSE 0)]

\* systemTime() / 1000 (lines 38 and 251): the clock never runs backwards;
\* now is the last value read from it
systemTimeUs(t) == t \in ClockValuesUs /\ t >= now

(* ------------------------------ start --------------------------------- *)
\* mutant: start() without the test of mStarted
startCheck_NoStartedTest(started, initCheck) ==
    IF initCheck # OK THEN NO_INIT ELSE OK

\* lines 94-100: what start() answers before it does anything
startCheck(started, initCheck) ==
    IF started THEN UNKNOWN_ERROR
    ELSE IF initCheck # OK THEN NO_INIT
    ELSE OK

\* AudioSource::start, lines 92-126, with the kKeyTime of params (0: none)
start(hint) ==
    /\ Running
    /\ mLock = "none"
    /\ stopPc = "idle"
    /\ IF startCheck(mStarted, mInitCheck) # OK THEN
          /\ ret' = [op |-> "start", status |-> startCheck(mStarted, mInitCheck),
                     out |-> NoBuffer, value |-> 0]
          /\ UNCHANGED <<objVars, poolVars, record, pollGhosts>>
       ELSE
          /\ mCollectStats' = (mCollectStats \/ record.recordStats)
          /\ ampCalls' = 0
          /\ peakSince' = 0
          /\ owedPeak' = 0
          /\ ampClean' = (ampClean /\ ampPc = "idle")
          /\ mTrackMaxAmplitude' = FALSE
          /\ mMaxAmplitude' = 0
          /\ mInitialReadTimeUs' = 0
          /\ mStartTimeUs' = hint
          /\ \E err \in {OK, UNKNOWN_ERROR} :
                /\ ret' = [op |-> "start", status |-> err, out |-> NoBuffer,
                           value |-> 0]
                /\ IF err = OK THEN
                      /\ record' = [record EXCEPT !.startCmds = @ + 1,
                                                  !.active = TRUE]
                      /\ mGroup' = record.startCmds + 1
                      /\ poolFree' = TRUE
                      /\ mStarted' = TRUE
                   ELSE
                      /\ record' = [record EXCEPT !.startCmds = @ + 1]
                      /\ UNCHANGED <<mGroup, poolFree, mStarted>>
          /\ UNCHANGED <<mInitCheck, mSampleRate, mPrevSampleTimeUs,
                         mTotalLostFrames, mPrevLostBytes, mNumFramesReceived,
                         mNumClientOwnedBuffers, mBuffersReceived, mLock, held>>
    /\ spurious' = (spurious /\ ~mStarted')
    /\ UNCHANGED <<readVars, stopPc, now, produced, lastAmplitude, ampPc,
                   ampValue, aborted>>

(* ------------------------------- stop --------------------------------- *)
\* AudioSource::releaseQueuedFrames_l, lines 128-136: what is left of the
\* queue q when it returns
releaseQueuedFrames_l(q) == <<>>

\* AudioSource::waitOutstandingEncodingFrames_l, lines 138-143: whether the
\* loop waits (releasing mLock) with n buffers owned by the client
waitOutstandingEncodingFrames_l(n) == n > 0

\* lines 157-160 of stop(): the drain wait, then the release of the queue
stopDrain ==
    IF waitOutstandingEncodingFrames_l(mNumClientOwnedBuffers) THEN
        /\ stopPc' = "wait"
        /\ mLock' = "none"
        /\ UNCHANGED <<mBuffersReceived, ret>>
    ELSE
        /\ mBuffersReceived' = releaseQueuedFrames_l(mBuffersReceived)
        /\ stopPc' = "idle"
        /\ mLock' = "none"
        /\ ret' = [op |-> "stop", status |-> OK, out |-> NoBuffer,
                   value |-> Len(mBuffersReceived)]

\* lines 146-152: what stop() answers before it does anything
stopCheck(started, initCheck) ==
    IF ~started THEN UNKNOWN_ERROR
    ELSE IF initCheck # OK THEN NO_INIT
    ELSE OK

\* AudioSource::stop, lines 144-161; a stop() waiting in the drain wait
\* resumes here when it gets the mutex back
stop ==
    /\ Running
    /\ mLock = "none"
    /\ IF stopPc = "wait" THEN
          /\ stopDrain
          /\ UNCHANGED <<mStarted, record>>
       ELSE IF stopCheck(mStarted, mInitCheck) # OK THEN
          /\ ret' = [op |-> "stop", status |-> stopCheck(mStarted, mInitCheck),
                     out |-> NoBuffer, value |-> 0]
          /\ UNCHANGED <<mStarted, record, mBuffersReceived, mLock, stopPc>>
       ELSE
          /\ mStarted' = FALSE
          /\ record' = [record EXCEPT !.stopCmds = @ + 1, !.active = FALSE]
          /\ stopDrain
    /\ UNCHANGED <<mInitCheck, mCollectStats, mSampleRate, timeVars, lossVars,
                   mNumFramesReceived, mNumClientOwnedBuffers, ampVars, mGroup,
                   poolVars, readVars, now, produced, spurious, pollVars,
                   aborted>>

(* -------------------------- buffer return ----------------------------- *)
\* AudioSource::signalBufferReturned, lines 380-388, for the buffer of
\* group g that the consumer owns
signalBufferReturned(g) ==
    /\ Running
    /\ mLock = "none"
    /\ g \in held
    /\ mNumClientOwnedBuffers' = mNumClientOwnedBuffers - 1
    /\ held' = held \ {g}
    /\ poolFree' = (poolFree \/ g = mGroup)
    /\ UNCHANGED <<mInitCheck, mStarted, mCollectStats, mSampleRate, timeVars,
                   lossVars, mNumFramesReceived, mBuffersReceived, ampVars,
                   mGroup, mLock, record, readVars, stopPc, now, obsVars>>

\* MediaBuffer::release by the consumer: the buffer goes back to its group
\* (the observer add_buffer set), without the source taking part
BufferRelease(g) ==
    /\ Running
    /\ g \in held
    /\ held' = held \ {g}
    /\ poolFree' = (poolFree \/ g = mGroup)
    /\ UNCHANGED <<objVars, record, readVars, stopPc, now, obsVars>>


(* ------------------------- sample arithmetic -------------------------- *)
\* conversion to int16_t (two's complement wrap-around)
toInt16(x) == ((x + 32768) % 65536) - 32768

\* C division of a by b > 0 (truncation towards zero)
cdiv(a, b) == IF a >= 0 THEN a \div b ELSE -((-a) \div b)

\* audio data: a sequence of runs [val |-> sample, len |-> bytes]
Run(v, bytes) == [val |-> v, len |-> bytes]
ZeroData(bytes) == IF bytes = 0 THEN <<>> ELSE <<Run(0, bytes)>>
AllZero(data) == \A i \in 1..Len(data) : data[i].val = 0
RECURSIVE DataBytes(_)
DataBytes(data) ==
    IF data = <<>> THEN 0 ELSE Head(data).len + DataBytes(Tail(data))

\* append one sample to run-length data
AppendSample(data, v) ==
    IF data # <<>> /\ data[Len(data)].val = v
    THEN [data EXCEPT ![Len(data)].len = @ + 2]
    ELSE Append(data, Run(v, 2))

\* AudioSource::rampVolume, lines 210-240, on a buffer of `bytes` bytes
\* that all hold the sample v: the data after the ramp
RECURSIVE rampLoop(_, _, _, _, _, _, _, _)
rampLoop(startFrame, stopFrame, rampDurationFrames, fixedMultiplier, nChannels, v, todo, acc) ==
    IF todo = 0 THEN acc
    ELSE IF ~(startFrame < stopFrame) THEN
        rampLoop(startFrame, stopFrame, rampDurationFrames, fixedMultiplier,
                 nChannels, v, todo - 1, AppendSample(acc, v))
    ELSE
        LET scaled == toInt16((v * fixedMultiplier) \div 16384)
            taken == IF nChannels = 1 \/ todo = 1 THEN 1 ELSE 2
            acc1 == AppendSample(acc, scaled)
            acc2 == IF taken = 2 THEN AppendSample(acc1, scaled) ELSE acc1
            next == startFrame + (IF nChannels = 1 THEN 1 ELSE 2)
            mult == IF next % 4 = 0
                    THEN cdiv(next * 16384, rampDurationFrames)
                    ELSE fixedMultiplier
        IN rampLoop(next, stopFrame, rampDurationFrames, mult,
                    nChannels, v, todo - taken, acc2)

rampVolume(startFrame, rampDurationFrames, v, bytes, nChannels) ==
    LET stop0 == startFrame + (bytes \div 2)
        stopFrame == IF stop0 > rampDurationFrames
                     THEN rampDurationFrames ELSE stop0
    IN rampLoop(startFrame, stopFrame, rampDurationFrames,
                cdiv(startFrame * 16384, rampDurationFrames),
                nChannels, v, bytes \div 2, <<>>)

\* lines 342-354 of read(): mute, ramp or pass the n bytes read, all of
\* which hold the sample v.  (k * sampleRate + 500000) / 1000000 is taken
\* with the factor 1000 that both ramp constants carry divided out.
muteOrRamp(elapsedUs, numFramesRecorded, sampleRate, v, n, nChannels) ==
    IF elapsedUs < kAutoRampStartUs THEN ZeroData(n)
    ELSE IF elapsedUs < kAutoRampStartUs + kAutoRampDurationUs THEN
        LET autoRampDurationFrames ==
                ((kAutoRampDurationUs \div 1000) * sampleRate + 500) \div 1000
            autoRampStartFrames ==
                ((kAutoRampStartUs \div 1000) * sampleRate + 500) \div 1000
        IN rampVolume(numFramesRecorded - autoRampStartFrames,
                      autoRampDurationFrames, v, n, nChannels)
    ELSE IF n = 0 THEN <<>> ELSE <<Run(v, n)>>

\* lines 345-352: the frame at which the ramp ends; from there on
\* rampVolume() changes nothing (its loop is not entered)
rampEndFrames(sampleRate) ==
    ((kAutoRampStartUs \div 1000) * sampleRate + 500) \div 1000
    + ((kAutoRampDurationUs \div 1000) * sampleRate + 500) \div 1000

\* mRecord->getPosition() after `frames` more frames.  read() uses the
\* position to test it against 0 (lines 264, 316, 359) and to index the
\* ramp (line 352), so positions from the end of the ramp on are alike
\* and are kept as one
advancePosition(position, frames) ==
    IF position + frames > rampEndFrames(mSampleRate)
    THEN rampEndFrames(mSampleRate)
    ELSE position + frames

\* the largest |sample| of run-length data
Max(a, b) == IF a > b THEN a ELSE b
RECURSIVE MaxAbs(_)
MaxAbs(data) ==
    IF data = <<>> THEN 0
    ELSE Max(IF Head(data).val < 0 THEN -Head(data).val ELSE Head(data).val,
             MaxAbs(Tail(data)))

\* AudioSource::trackMaxAmplitude, lines 466-476: mMaxAmplitude after the
\* samples of data, starting from maxAmp
RECURSIVE trackMaxAmplitude(_, _)
trackMaxAmplitude(data, maxAmp) ==
    IF data = <<>> THEN maxAmp
    ELSE LET value0 == Head(data).val
             value == IF value0 < 0 THEN toInt16(-value0) ELSE value0
         IN trackMaxAmplitude(Tail(data),
                              IF maxAmp < value THEN value ELSE maxAmp)


(* ------------------------------- read --------------------------------- *)
\* mutant: skipFrame failing only beyond the limit
skipFrame_Strict(timestampUs, options) ==
    IF ~options.has THEN 0
    ELSE IF options.us <= timestampUs THEN 0
    ELSE IF options.us - timestampUs > kSkipLimitUs THEN -1
    ELSE 1

\* skipFrame, lines 183-208
skipFrame(timestampUs, options) ==
    IF ~options.has THEN 0
    ELSE IF options.us <= timestampUs THEN 0
    ELSE IF options.us - timestampUs >= kSkipLimitUs THEN -1
    ELSE 1

\* lines 264-274 and 407-417: the start time fixed on the first data,
\* from the start time start() left and the wall clock t
initialDelay(startTimeUs, t, latencyMs) ==
    IF startTimeUs > 0 THEN t - startTimeUs
    ELSE startTimeUs + latencyMs * 1000

\* mutant: the frame count taken for a byte count
readLostBytes_NoShift(framesLost) == framesLost

\* line 280: bytes for the frames getInputFramesLost() reports to read()
readLostBytes(framesLost) == framesLost * 2

\* mutant: the carryover capped at one buffer
carryOver_Capped(numLostBytes) ==
    IF numLostBytes > 2 * kMaxBufferSize THEN kMaxBufferSize
    ELSE IF numLostBytes > kMaxBufferSize THEN numLostBytes - kMaxBufferSize
    ELSE 0

\* lines 293-298: the carryover kept when numLostBytes are pending
carryOver(numLostBytes) ==
    IF numLostBytes > kMaxBufferSize THEN numLostBytes - kMaxBufferSize ELSE 0

\* mutant: only a negative result of the device read taken as a failure
deviceReadFailed_Negative(n) == n < 0

\* line 327: the result n of mRecord->read is a failure
deviceReadFailed(n) == n <= 0

\* lines 319 and 363: kKeyTime of a buffer read() produces
readKeyTime(startTimeUs, prevSampleTimeUs) == startTimeUs + prevSampleTimeUs

\* lines 316-318 and 359-361: whether read() attaches kKeyAnchorTime
readAnchor(numFramesRecorded) == numFramesRecorded = 0

\* read() returns: the mutex is released
readReturn(status, out) ==
    /\ ret' = [op |-> "read", status |-> status, out |-> out, value |-> 0]
    /\ readPc' = "idle"
    /\ mLock' = "none"

\* lines 242-255: read() takes the mutex, checks mInitCheck, reads the
\* clock and asks the group for its buffer
ReadEnter(options, t) ==
    /\ Running
    /\ systemTimeUs(t)
    /\ readPc = "idle"
    /\ mLock = "none"
    /\ IF mInitCheck # OK THEN
          /\ ret' = [op |-> "read", status |-> NO_INIT, out |-> NoBuffer, value |-> 0]
          /\ UNCHANGED <<mLock, readVars, now, poolFree, aborted>>
       ELSE IF mGroup = 0 THEN
          \* mGroup->acquire_buffer on the NULL group of the constructor
          /\ aborted' = "null mGroup"
          /\ now' = t
          /\ UNCHANGED <<mLock, readVars, poolFree, ret>>
       ELSE
          /\ mLock' = "read"
          /\ readTimeUs' = t
          /\ now' = t
          /\ readOptions' = options
          /\ readLocals' = NoPass
          \* line 255: acquire_buffer takes the group's buffer, or blocks
          /\ readPc' = IF poolFree THEN "loop" ELSE "acquire"
          /\ poolFree' = FALSE
          /\ UNCHANGED <<ret, aborted>>
    /\ UNCHANGED <<mInitCheck, mStarted, mCollectStats, mSampleRate, timeVars,
                   lossVars, mNumFramesReceived, mNumClientOwnedBuffers,
                   mBuffersReceived, ampVars, mGroup, held, record, stopPc,
                   produced, spurious, pollVars>>

\* line 255: a blocked acquire_buffer returns once the buffer is released
ReadAcquire ==
    /\ Running
    /\ readPc = "acquire"
    /\ poolFree
    /\ poolFree' = FALSE
    /\ readPc' = "loop"
    /\ UNCHANGED <<objVars, held, record, readTimeUs, readOptions,
                   readLocals, stopPc, now, obsVars>>

\* lines 258-376: one pass through the loop body of read(); framesLost is
\* what getInputFramesLost() answers, n and v what the blocking
\* AudioRecord::read returns, should this pass call it
ReadLoop(n, v, framesLost) ==
    /\ Running
    /\ readPc = "loop"
    /\ IF ~mStarted THEN
          \* line 376: the loop is not entered
          /\ readReturn(OK, NoBuffer)
          /\ UNCHANGED <<timeVars, lossVars, ampVars, poolVars, record,
                         produced, aborted, readLocals, peakSince,
                         owedPeak, ampClean>>
       ELSE
          LET numFramesRecorded == record.position
              first == numFramesRecorded = 0 /\ mPrevSampleTimeUs = 0
              startTimeUs == IF first
                             THEN initialDelay(mStartTimeUs, readTimeUs,
                                               record.latency)
                             ELSE mStartTimeUs
              prevSampleTimeUs == IF first THEN startTimeUs
                                  ELSE mPrevSampleTimeUs
              initialReadTimeUs == IF first THEN readTimeUs
                                   ELSE mInitialReadTimeUs
              sampleRate == mSampleRate
              pending == readLostBytes(framesLost) + mPrevLostBytes
          IN
          /\ mStartTimeUs' = startTimeUs
          /\ mInitialReadTimeUs' = initialReadTimeUs
          /\ IF pending > 0 THEN
                LET numLostBytes == IF pending > kMaxBufferSize
                                    THEN kMaxBufferSize ELSE pending
                    timestampUs == prevSampleTimeUs
                        + RoundedDurationUs(numLostBytes \div 2, sampleRate)
                    err == skipFrame(timestampUs, readOptions)
                IN
                /\ record' = getInputFramesLost(framesLost)
                /\ mPrevLostBytes' = carryOver(pending)
                /\ readLocals' = [deviceRead |-> FALSE, n |-> 0, err |-> err,
                                  timestampUs |-> timestampUs,
                                  pass |-> 1 - readLocals.pass]
                /\ UNCHANGED <<ampVars, peakSince, owedPeak, ampClean>>
                /\ IF numLostBytes % 2 # 0 THEN
                      \* line 300: CHECK_EQ(numLostBytes & 1, 0)
                      /\ aborted' = "CHECK_EQ numLostBytes read"
                      /\ UNCHANGED <<mPrevSampleTimeUs, mTotalLostFrames,
                                     poolVars, produced, ret, readPc, mLock>>
                   ELSE IF ~(timestampUs > prevSampleTimeUs) THEN
                      \* line 304: CHECK(timestampUs > mPrevSampleTimeUs)
                      /\ aborted' = "CHECK timestampUs lost"
                      /\ UNCHANGED <<mPrevSampleTimeUs, mTotalLostFrames,
                                     poolVars, produced, ret, readPc, mLock>>
                   ELSE
                      /\ aborted' = aborted
                      /\ mTotalLostFrames' =
                            IF mCollectStats
                            THEN mTotalLostFrames + (numLostBytes \div 2)
                            ELSE mTotalLostFrames
                      /\ IF err = -1 THEN
                            /\ poolFree' = TRUE
                            /\ readReturn(UNKNOWN_ERROR, NoBuffer)
                            /\ mPrevSampleTimeUs' = prevSampleTimeUs
                            /\ UNCHANGED <<held, produced>>
                         ELSE IF err # 0 THEN
                            \* continue
                            /\ mPrevSampleTimeUs' = prevSampleTimeUs
                            /\ UNCHANGED <<poolVars, produced, ret, readPc,
                                           mLock>>
                         ELSE
                            /\ produced' = Append(produced,
                                  [src |-> "read", lost |-> TRUE,
                                   session |-> mGroup,
                                   keyTime |-> readKeyTime(startTimeUs,
                                                           prevSampleTimeUs),
                                   anchor |-> readAnchor(numFramesRecorded),
                                   driftTime |-> readTimeUs - initialReadTimeUs,
                                   rangeLength |-> numLostBytes,
                                   lostBytes |-> numLostBytes,
                                   data |-> ZeroData(numLostBytes),
                                   startTimeUs |-> startTimeUs,
                                   cursorBefore |-> prevSampleTimeUs,
                                   cursorAfter |-> timestampUs,
                                   framesLost |-> framesLost,
                                   carried |-> mPrevLostBytes,
                                   deviceRead |-> FALSE])
                            /\ mPrevSampleTimeUs' = timestampUs
                            /\ held' = held \cup {mGroup}
                            /\ poolFree' = poolFree
                            /\ readReturn(OK, Len(produced) + 1)
             ELSE
                \* line 326: the blocking read of the device
                LET recordDuration == recordDurationUs(n, sampleRate)
                    timestampUs == prevSampleTimeUs + recordDuration
                    err == skipFrame(timestampUs, readOptions)
                    data == muteOrRamp(prevSampleTimeUs - startTimeUs,
                                       numFramesRecorded, sampleRate, v, n,
                                       record.channels)
                IN
                /\ UNCHANGED lossVars
                /\ readLocals' = [deviceRead |-> TRUE, n |-> n,
                                  err |-> IF deviceReadFailed(n) THEN 0 ELSE err,
                                  timestampUs |-> timestampUs,
                                  pass |-> 1 - readLocals.pass]
                /\ IF ~deviceReadFailed(n) /\ err = 0 THEN
                      \* lines 342-357: the data stays in the buffer
                      /\ peakSince' = Max(peakSince, MaxAbs(data))
                      /\ owedPeak' = IF mTrackMaxAmplitude
                                     THEN trackMaxAmplitude(data, owedPeak)
                                     ELSE owedPeak
                      /\ ampClean' = (ampClean /\ ampPc = "idle")
                   ELSE UNCHANGED <<peakSince, owedPeak, ampClean>>
                /\ IF deviceReadFailed(n) THEN
                      /\ record' = getInputFramesLost(framesLost)
                      /\ poolFree' = TRUE
                      /\ readReturn(UNKNOWN_ERROR, NoBuffer)
                      /\ mPrevSampleTimeUs' = prevSampleTimeUs
                      /\ UNCHANGED <<ampVars, held, produced, aborted>>
                   ELSE
                      /\ record' = [record EXCEPT
                                       !.position =
                                          advancePosition(@, n \div frameSize)]
                      /\ IF err = -1 THEN
                            /\ poolFree' = TRUE
                            /\ readReturn(UNKNOWN_ERROR, NoBuffer)
                            /\ mPrevSampleTimeUs' = prevSampleTimeUs
                            /\ UNCHANGED <<ampVars, held, produced, aborted>>
                         ELSE IF err # 0 THEN
                            \* continue
                            /\ mPrevSampleTimeUs' = prevSampleTimeUs
                            /\ UNCHANGED <<ampVars, poolVars, produced, ret,
                                           readPc, mLock, aborted>>
                         ELSE
                            /\ mMaxAmplitude' =
                                  IF mTrackMaxAmplitude
                                  THEN trackMaxAmplitude(data, mMaxAmplitude)
                                  ELSE mMaxAmplitude
                            /\ mTrackMaxAmplitude' = mTrackMaxAmplitude
                            /\ IF ~(timestampUs > prevSampleTimeUs) THEN
                                  \* line 365
                                  /\ aborted' = "CHECK timestampUs data"
                                  /\ UNCHANGED <<mPrevSampleTimeUs, poolVars,
                                                 produced, ret, readPc, mLock>>
                               ELSE
                                  /\ aborted' = aborted
                                  /\ produced' = Append(produced,
                                        [src |-> "read", lost |-> FALSE,
                                         session |-> mGroup,
                                         keyTime |-> readKeyTime(startTimeUs,
                                                        prevSampleTimeUs),
                                         anchor |-> readAnchor(numFramesRecorded),
                                         driftTime |-> readTimeUs
                                                       - initialReadTimeUs,
                                         rangeLength |-> n,
                                         lostBytes |-> 0,
                                         data |-> data,
                                         startTimeUs |-> startTimeUs,
                                         cursorBefore |-> prevSampleTimeUs,
                                         cursorAfter |-> timestampUs,
                                         framesLost |-> 0,
                                         carried |-> 0,
                                         deviceRead |-> TRUE])
                                  /\ mPrevSampleTimeUs' = timestampUs
                                  /\ held' = held \cup {mGroup}
                                  /\ poolFree' = poolFree
                                  /\ readReturn(OK, Len(produced) + 1)
    /\ UNCHANGED <<mInitCheck, mStarted, mCollectStats, mSampleRate,
                   mNumFramesReceived, mNumClientOwnedBuffers, mBuffersReceived,
                   mGroup, readTimeUs, readOptions, stopPc, now, spurious,
                   lastAmplitude, ampPc, ampValue, ampCalls>>


(* ----------------------- dataCallbackTimestamp ------------------------ *)
\* line 425: bytes for the frames getInputFramesLost() reports to the
\* callback
callbackLostBytes(framesLost) == framesLost * frameSize

\* line 454: kKeyTime of a buffer the callback produces
callbackKeyTime(startTimeUs, prevSampleTimeUs) == prevSampleTimeUs

\* mutant: the callback without the test of mStarted
callbackAccepts_Always(started) == TRUE

\* lines 395-398: whether the callback takes the data
callbackAccepts(started) == started

\* AudioRecordCallbackFunction (lines 34-40) and
\* AudioSource::dataCallbackTimestamp (lines 391-462) for an
\* AudioRecord::Buffer of `size` bytes holding the sample v, at time
\* timeUs; framesLost is what getInputFramesLost() answers if asked
dataCallbackTimestamp(size, v, timeUs, framesLost) ==
    /\ Running
    /\ systemTimeUs(timeUs)
    /\ now' = timeUs
    /\ mLock = "none"
    /\ record.startCmds > 0
    /\ IF ~callbackAccepts(mStarted) THEN
          /\ spurious' = TRUE
          /\ UNCHANGED <<timeVars, mNumFramesReceived, mBuffersReceived,
                         record, produced, aborted>>
       ELSE IF mNumFramesReceived = 0 /\ timeUs < mStartTimeUs THEN
          /\ spurious' = spurious
          /\ record' = getInputFramesLost(framesLost)
          /\ UNCHANGED <<timeVars, mNumFramesReceived, mBuffersReceived,
                         produced, aborted>>
       ELSE
          LET first == mNumFramesReceived = 0 /\ mPrevSampleTimeUs = 0
              startTimeUs == IF first
                             THEN initialDelay(mStartTimeUs, timeUs,
                                               record.latency)
                             ELSE mStartTimeUs
              prevSampleTimeUs == IF first THEN startTimeUs
                                  ELSE mPrevSampleTimeUs
              initialReadTimeUs == IF first THEN timeUs
                                   ELSE mInitialReadTimeUs
              asked == mNumFramesReceived > 0
              numLostBytes == IF asked
                              THEN callbackLostBytes(framesLost) ELSE 0
              bufferSize == numLostBytes + size
              timestampUs == prevSampleTimeUs
                  + RoundedDurationUs(bufferSize \div 2, mSampleRate)
          IN
          /\ mStartTimeUs' = startTimeUs
          /\ mInitialReadTimeUs' = initialReadTimeUs
          /\ record' = [(IF asked THEN getInputFramesLost(framesLost)
                                  ELSE record)
                            EXCEPT !.position =
                                      advancePosition(@, size \div frameSize)]
          /\ IF numLostBytes % 2 # 0 THEN
                \* line 428: CHECK_EQ(numLostBytes & 1, 0u)
                /\ aborted' = "CHECK_EQ numLostBytes callback"
                /\ UNCHANGED <<mPrevSampleTimeUs, mNumFramesReceived,
                               mBuffersReceived, produced, spurious>>
             ELSE IF size % 2 # 0 THEN
                \* line 429: CHECK_EQ(audioBuffer.size & 1, 0u)
                /\ aborted' = "CHECK_EQ audioBuffer.size"
                /\ UNCHANGED <<mPrevSampleTimeUs, mNumFramesReceived,
                               mBuffersReceived, produced, spurious>>
             ELSE IF numLostBytes = 0 /\ size = 0 THEN
                \* lines 437-441
                /\ spurious' = spurious
                /\ mPrevSampleTimeUs' = prevSampleTimeUs
                /\ UNCHANGED <<mNumFramesReceived, mBuffersReceived, produced,
                               aborted>>
             ELSE
                /\ spurious' = spurious
                /\ produced' = Append(produced,
                      [src |-> "callback", lost |-> numLostBytes > 0,
                       session |-> mGroup,
                       keyTime |-> callbackKeyTime(startTimeUs,
                                                   prevSampleTimeUs),
                       anchor |-> mNumFramesReceived = 0,
                       driftTime |-> timeUs - initialReadTimeUs,
                       rangeLength |-> bufferSize,
                       lostBytes |-> numLostBytes,
                       data |-> ZeroData(numLostBytes)
                                \o (IF size = 0 THEN <<>> ELSE <<Run(v, size)>>),
                       startTimeUs |-> startTimeUs,
                       cursorBefore |-> prevSampleTimeUs,
                       cursorAfter |-> timestampUs,
                       framesLost |-> IF asked THEN framesLost ELSE 0,
                       carried |-> 0,
                       deviceRead |-> FALSE])
                /\ mPrevSampleTimeUs' = timestampUs
                /\ mNumFramesReceived' = mNumFramesReceived + (bufferSize \div 2)
                /\ mBuffersReceived' = Append(mBuffersReceived,
                                              Len(produced) + 1)
                /\ aborted' = aborted
    /\ UNCHANGED <<mInitCheck, mStarted, mCollectStats, mSampleRate, lossVars,
                   mNumClientOwnedBuffers, ampVars, mGroup, mLock, poolVars,
                   readVars, stopPc, ret, pollVars>>

(* -------------------------- getMaxAmplitude --------------------------- *)
\* AudioSource::getMaxAmplitude, lines 478-487.  It takes no lock, so its
\* reads and writes of mTrackMaxAmplitude and mMaxAmplitude interleave
\* with those of read() and start(), which hold mLock.
pollRest ==
    UNCHANGED <<mInitCheck, mStarted, mCollectStats, mSampleRate, timeVars,
                lossVars, mNumFramesReceived, mNumClientOwnedBuffers,
                mBuffersReceived, mGroup, mLock, poolVars, record, readVars,
                stopPc, now, ret, produced, spurious, aborted>>

\* lines 480-482: the first call activates the tracking
getMaxAmplitudeActivate ==
    /\ Running
    /\ ampPc = "idle"
    /\ ampPc' = "activated"
    /\ mTrackMaxAmplitude' = TRUE
    /\ ampClean' = TRUE
    /\ UNCHANGED <<mMaxAmplitude, lastAmplitude, ampValue, ampCalls,
                   peakSince, owedPeak>>
    /\ pollRest

\* line 483: int16_t value = mMaxAmplitude
getMaxAmplitudeLoad ==
    /\ Running
    /\ ampPc = "activated"
    /\ ampPc' = "loaded"
    /\ ampValue' = mMaxAmplitude
    /\ UNCHANGED <<ampVars, lastAmplitude, pollGhosts>>
    /\ pollRest

\* lines 484-486: mMaxAmplitude = 0; return value
getMaxAmplitudeStore ==
    /\ Running
    /\ ampPc = "loaded"
    /\ ampPc' = "idle"
    /\ mMaxAmplitude' = 0
    /\ lastAmplitude' = ampValue
    /\ ampCalls' = ampCalls + 1
    /\ peakSince' = 0
    /\ owedPeak' = IF ampValue >= owedPeak THEN 0 ELSE owedPeak
    /\ UNCHANGED <<mTrackMaxAmplitude, ampValue, ampClean>>
    /\ pollRest

getMaxAmplitude ==
    \/ getMaxAmplitudeActivate
    \/ getMaxAmplitudeLoad
    \/ getMaxAmplitudeStore

(* ------------------------------- Next --------------------------------- *)
\* the bounds of the exploration: device start commands, buffers produced,
\* nonzero answers of getInputFramesLost()
MayStart == mStarted \/ mInitCheck # OK \/ record.startCmds < MaxSessions
MayProduce == Len(produced) < MaxProduced
MayLose(framesLost) == framesLost = 0 \/ record.lostReports < MaxLostReports
MayPoll == ampCalls < MaxPolls

\* the session: lifecycle, capture and buffer return
NextSession ==
    \/ \E hint \in StartHints : MayStart /\ start(hint)
    \/ stop
    \/ \E options \in SkipOptions, t \in ClockValuesUs :
          MayProduce /\ ReadEnter(options, t)
    \/ ReadAcquire
    \/ \E n \in DeviceReadResults, v \in SampleValues,
          framesLost \in LostFrameCounts :
          MayLose(framesLost) /\ ReadLoop(n, v, framesLost)
    \/ \E g \in held : signalBufferReturned(g)
    \/ \E g \in held : BufferRelease(g)
    \/ \E size \in CallbackSizes, v \in SampleValues, t \in ClockValuesUs,
          framesLost \in LostFrameCounts :
          /\ MayProduce
          /\ MayLose(framesLost)
          /\ dataCallbackTimestamp(size, v, t, framesLost)

\* the session, with the amplitude poll
Next ==
    \/ NextSession
    \/ MayPoll /\ getMaxAmplitudeActivate
    \/ getMaxAmplitudeLoad
    \/ getMaxAmplitudeStore

Spec == Init /\ [][Next]_vars

\* The session without the amplitude poll.  getMaxAmplitude() writes only
\* mTrackMaxAmplitude, mMaxAmplitude and the record of its own calls, which
\* no other operation reads except to track the amplitude.
SpecSession == Init /\ [][NextSession]_vars


(* ------------------------- the amplitude poll ------------------------- *)
\* A session past its mute and ramp: the state after start() without a
\* start time and ReadsBefore calls of read() that each got kMaxBufferSize
\* bytes from the device and whose buffers the consumer released, with no
\* call of getMaxAmplitude() yet.  The record of calls and buffers starts
\* here.
InitSteady ==
    /\ mInitCheck = OK
    /\ mStarted = TRUE
    /\ mCollectStats = TRUE
    /\ mSampleRate \in SampleRates
    /\ \E lat \in LatenciesMs, ch \in ChannelCounts :
          /\ mStartTimeUs = initialDelay(0, StartClockUs, lat)
          /\ record = [active |-> TRUE,
                       position |-> ReadsBefore * (kMaxBufferSize \div (2 * ch)),
                       latency |-> lat, channels |-> ch,
                       startCmds |-> 1, stopCmds |-> 0, lostReports |-> 0,
                       recordStats |-> TRUE]
    /\ mPrevSampleTimeUs = mStartTimeUs
          + ReadsBefore * recordDurationUs(kMaxBufferSize, mSampleRate)
    /\ mInitialReadTimeUs = StartClockUs
    /\ mTotalLostFrames = 0
    /\ mPrevLostBytes = 0
    /\ mNumFramesReceived = 0
    /\ mNumClientOwnedBuffers = 0
    /\ mBuffersReceived = <<>>
    /\ mTrackMaxAmplitude = FALSE
    /\ mMaxAmplitude = 0
    /\ mGroup = 1
    /\ mLock = "none"
    /\ poolFree = TRUE
    /\ held = {}
    /\ readPc = "idle"
    /\ readTimeUs = StartClockUs
    /\ readOptions = NoSkip
    /\ readLocals = [deviceRead |-> TRUE, n |-> kMaxBufferSize, err |-> 0,
                     timestampUs |-> mPrevSampleTimeUs, pass |-> 0]
    /\ stopPc = "idle"
    /\ now = StartClockUs
    /\ ret = [op |-> "none", status |-> OK, out |-> NoBuffer, value |-> 0]
    /\ produced = <<>>
    /\ spurious = FALSE
    /\ lastAmplitude = 0
    /\ ampPc = "idle"
    /\ ampValue = 0
    /\ ampCalls = 0
    /\ peakSince = 0
    /\ owedPeak = 0
    /\ ampClean = TRUE
    /\ aborted = "no"

\* read() and getMaxAmplitude() on their two threads
NextAmplitude ==
    \/ \E t \in ClockValuesUs : MayProduce /\ ReadEnter(NoSkip, t)
    \/ ReadAcquire
    \/ \E v \in PollSampleValues : ReadLoop(kMaxBufferSize, v, 0)
    \/ \E g \in held : BufferRelease(g)
    \/ MayPoll /\ getMaxAmplitudeActivate
    \/ getMaxAmplitudeLoad
    \/ getMaxAmplitudeStore

SpecAmplitude == InitSteady /\ [][NextAmplitude]_vars


(* --------------------------- frame skipping --------------------------- *)
\* results of mRecord->read when the device delivers data
DeliveringReads == {n \in DeviceReadResults : n > 0}

\* frames the device reports lost, before it has delivered any
SkipLostFrameCounts == {0, 100}
MayLoseFirst(framesLost) ==
    framesLost = 0 \/ (record.lostReports = 0 /\ record.position = 0)

\* read() is called while the device has filled fewer than MaxDeviceReads
\* buffers
MayReadAgain ==
    record.position < MaxDeviceReads * (kMaxBufferSize \div frameSize)

\* one pass of the loop of read() on a device that delivers data
ReadLoopStep ==
    \E n \in DeliveringReads, v \in SampleValues,
       framesLost \in SkipLostFrameCounts :
       MayLoseFirst(framesLost) /\ ReadLoop(n, v, framesLost)

\* the session read with kSkipFrame_Option
NextSkip ==
    \/ \E hint \in StartHints : MayStart /\ start(hint)
    \/ stop
    \/ \E options \in SkipRequests, t \in ClockValuesUs :
          MayProduce /\ MayReadAgain /\ ReadEnter(options, t)
    \/ ReadAcquire
    \/ ReadLoopStep
    \/ \E g \in held : BufferRelease(g)

\* The thread that is inside read() holds mLock and keeps running: a pass
\* of the loop that can be made is made.
SpecSkip == Init /\ [][NextSkip]_vars /\ WF_vars(ReadLoopStep)


(* ------------------------------ restart ------------------------------- *)
MayRestart == mStarted \/ mInitCheck # OK \/ record.startCmds < MaxRestarts

\* sessions one after another on the same object
NextRestart ==
    \/ \E hint \in StartHints : MayRestart /\ start(hint)
    \/ stop
    \/ \E t \in ClockValuesUs : MayProduce /\ ReadEnter(NoSkip, t)
    \/ ReadAcquire
    \/ \E n \in DeviceReadResults, v \in SampleValues,
          framesLost \in LostFrameCounts :
          MayLose(framesLost) /\ ReadLoop(n, v, framesLost)
    \/ \E g \in held : BufferRelease(g)
    \/ \E size \in CallbackSizes, v \in SampleValues, t \in ClockValuesUs,
          framesLost \in LostFrameCounts :
          /\ MayProduce
          /\ MayLose(framesLost)
          /\ dataCallbackTimestamp(size, v, t, framesLost)

SpecRestart == Init /\ [][NextRestart]_vars


(* ------------------------------ claims -------------------------------- *)
Last(seq) == seq[Len(seq)]
ReadBuffers == {i \in 1..Len(produced) : produced[i].src = "read"}
LostReads == {i \in ReadBuffers : produced[i].lost}

\* C1: when stop() has returned OK, no buffer that read() handed to the
\* consumer is still outstanding (stop() waits for every such buffer to be
\* returned).
C1_StopWaitsForReturn ==
    (ret.op = "stop" /\ ret.status = OK) => held = {}

\* C2: within one session the kKeyTime of every produced buffer is strictly
\* greater than the kKeyTime of the buffer produced before it, whichever of
\* read() and dataCallbackTimestamp() produced them.
C2_KeyTimeIncreases ==
    \A i \in 1..Len(produced), j \in 1..Len(produced) :
        (i < j /\ produced[i].session = produced[j].session)
            => produced[i].keyTime < produced[j].keyTime

\* C3: once stop() has marked the session not-started, no callback
\* enqueues anything: whenever the session is not started and no stop() is
\* in progress (stop() has returned, or start() was never called), the
\* pending queue is empty.
C3_QueueEmptyWhenStopped ==
    (~mStarted /\ stopPc = "idle") => mBuffersReceived = <<>>

\* C3 witness: stop() returned OK after discarding queued buffers, and a
\* callback that came after it was dropped.
C3_Witness ==
    /\ ~mStarted
    /\ stopPc = "idle"
    /\ ret.op = "stop" /\ ret.status = OK /\ ret.value > 0
    /\ spurious
    /\ mBuffersReceived = <<>>

\* C4: start() on a started session returns UNKNOWN_ERROR, sends the device
\* no start command and leaves the session started; stop() on a session
\* that is not started returns UNKNOWN_ERROR and sends the device no stop
\* command.
C4_StartStopMisuse ==
    [][ /\ (mStarted /\ \E hint \in StartHints : start(hint))
            => /\ ret'.op = "start" /\ ret'.status = UNKNOWN_ERROR
               /\ mStarted'
               /\ record'.startCmds = record.startCmds
               /\ mGroup' = mGroup
        /\ (~mStarted /\ stopPc = "idle" /\ stop)
            => /\ ret'.op = "stop" /\ ret'.status = UNKNOWN_ERROR
               /\ ~mStarted'
               /\ record'.stopCmds = record.stopCmds
      ]_vars

\* C4 witness: a start() on the started session has failed, the session is
\* still started and the device got one start command.
C4_Witness ==
    /\ ret.op = "start" /\ ret.status = UNKNOWN_ERROR
    /\ mStarted
    /\ record.startCmds = 1

\* C5: on an object whose construction failed, start() and stop() both
\* return NO_INIT, the session is never started and mInitCheck never
\* changes.
C5_NotInitialized ==
    [][ (mInitCheck # OK)
            => /\ mInitCheck' = mInitCheck
               /\ ~mStarted'
               /\ (ret' # ret /\ ret'.op \in {"start", "stop"})
                      => ret'.status = NO_INIT
      ]_vars


\* the integer nearest to frames * 1000000 / rate
RoundNearestUs(frames, rate) == MulMillionDiv(2 * frames, rate, 2 * rate)

\* the zero-filled buffers read() made for lost frames alone: nothing
\* carried over, and no more than a buffer holds
PlainLostReads ==
    {i \in LostReads : /\ produced[i].carried = 0
                       /\ produced[i].framesLost * frameSize <= kMaxBufferSize}

\* C6: a read() to which the device reports L > 0 lost frames (nothing
\* carried over, the result within the capacity) returns, without the
\* blocking device read, a buffer of exactly L * 2 * channelCount bytes,
\* all zero.
C6_LostFramesZeroFilled ==
    \A i \in PlainLostReads :
        /\ produced[i].rangeLength = produced[i].framesLost * 2 * record.channels
        /\ AllZero(produced[i].data)
        /\ DataBytes(produced[i].data) = produced[i].rangeLength
        /\ ~produced[i].deviceRead

C8_KeyTimeIsStartPlusCursor ==
    \A i \in 1..Len(produced) :
        produced[i].keyTime
            = produced[i].startTimeUs + produced[i].cursorBefore

\* C9 (as claimed): the carryover mPrevLostBytes never exceeds
\* kMaxBufferSize.
C9_CarryoverWithinOneBuffer ==
    mPrevLostBytes <= kMaxBufferSize

\* C9 (amended): a read() that makes a zero-filled buffer keeps as
\* carryover exactly the pending lost bytes (2 per frame reported lost,
\* plus the carryover before) that the buffer, of at most kMaxBufferSize
\* bytes, does not take; nothing bounds it by one buffer.
C9_CarryoverIsTheExcess ==
    [][ (Len(produced') = Len(produced) + 1
         /\ Last(produced').src = "read" /\ Last(produced').lost)
            => LET b == Last(produced')
                   pending == 2 * b.framesLost + mPrevLostBytes
               IN /\ b.rangeLength + mPrevLostBytes' = pending
                  /\ b.rangeLength <= kMaxBufferSize
                  /\ mPrevLostBytes' > 0 => b.rangeLength = kMaxBufferSize
                  /\ mPrevLostBytes' >= 0
      ]_vars

\* C9 witness: a carryover larger than one buffer.
C9_Witness ==
    /\ mPrevLostBytes > kMaxBufferSize
    /\ LostReads # {}

\* C10: the assertions CHECK_EQ(numLostBytes & 1, 0) of read() and of the
\* callback never fail, and the lost bytes of every produced buffer and
\* the carryover are even.
C10_LostBytesEven ==
    /\ aborted \notin {"CHECK_EQ numLostBytes read",
                       "CHECK_EQ numLostBytes callback"}
    /\ mPrevLostBytes % 2 = 0
    /\ \A i \in 1..Len(produced) : produced[i].lostBytes % 2 = 0

\* C10 witness: read() made a zero-filled buffer from a carryover left by
\* an odd number of lost frames.
C10_Witness ==
    \E i, j \in LostReads :
        /\ i < j
        /\ produced[i].framesLost % 2 = 1
        /\ produced[j].carried > 0
        /\ produced[j].lostBytes > 0


(* C11 - C20 *)
\* a getMaxAmplitude() call returns: line 486
PollReturns == ampPc = "loaded" /\ ampPc' = "idle"

\* C11: getMaxAmplitude() is a reset-on-read peak.  The first call of a
\* session returns 0; each later call returns the largest |sample| of the
\* buffers read() delivered since the previous call returned, which is 0
\* if there was none.  (Stated for the calls during which neither read()
\* nor start() ran.)
C11_ResetOnReadPeak ==
    [][(PollReturns /\ ampClean /\ mStarted)
          => lastAmplitude' = (IF ampCalls = 0 THEN 0 ELSE peakSince)]_vars

\* C12: with the tracking active, the call that follows the delivery of a
\* buffer holding the sample -32768 returns its absolute value (32768, or
\* -32768 as 16 bits hold it), and a call that follows with no buffer in
\* between returns 0
C12_ExtremeNegativeSample ==
    [][(PollReturns /\ ampClean /\ mStarted /\ ampCalls >= 1)
          => /\ peakSince = 32768 => lastAmplitude' \in {32768, toInt16(32768)}
             /\ peakSince = 0 => lastAmplitude' = 0]_vars

\* C15: no peak that read() tracked is lost to a concurrent
\* getMaxAmplitude(): the largest value tracked and not yet returned is
\* still stored in mMaxAmplitude, or is the value a call in progress has
\* loaded and will return
C15_NoTrackedPeakLost ==
    \/ owedPeak <= mMaxAmplitude
    \/ ampPc = "loaded" /\ owedPeak <= ampValue

\* C13: a read() in its loop with a skip target returns in the end, as
\* long as the device delivers data
C13_SkipReadReturns ==
    (readPc = "loop" /\ mStarted /\ readOptions.has) ~> (readPc = "idle")

\* a pass of the loop of read() is made
ReadPass == readPc = "loop" /\ readLocals'.pass # readLocals.pass
\* the pass ends read() with UNKNOWN_ERROR though the device gave data
SkipFails ==
    /\ readPc' = "idle"
    /\ ret'.op = "read" /\ ret'.status = UNKNOWN_ERROR
    /\ ~(readLocals'.deviceRead /\ readLocals'.n <= 0)

\* C18: read() with skip target T fails with the skip-range error exactly
\* when T lies more than 1000000 us past the timestamp computed for the
\* buffer (T - timestamp = 1000000 does not fail), and on failure the
\* buffer is back in the pool and none is handed out
C18_SkipFailsBeyondLimit ==
    [][(ReadPass /\ readOptions.has)
          => /\ SkipFails <=>
                   readOptions.us - readLocals'.timestampUs > kSkipLimitUs
             /\ SkipFails => poolFree' /\ ret'.out = NoBuffer]_vars

\* C18 as the code has it: the skip-range error is given exactly when T
\* lies 1000000 us or more past the timestamp
C18_SkipFailsFromLimit ==
    [][(ReadPass /\ readOptions.has)
          => /\ SkipFails <=>
                   readOptions.us - readLocals'.timestampUs >= kSkipLimitUs
             /\ SkipFails => poolFree' /\ ret'.out = NoBuffer]_vars

C18_Witness ==
    /\ readPc = "idle" /\ ret.op = "read" /\ ret.status = UNKNOWN_ERROR
    /\ readOptions.has
    /\ readOptions.us - readLocals.timestampUs = kSkipLimitUs
    /\ poolFree

\* C14: when no read() is in progress, the buffer of the session's group
\* is in the pool or with the consumer: no read() has returned leaving it
\* acquired and unowned
C14_NoBufferStranded ==
    (readPc = "idle" /\ mGroup # 0) => (poolFree \/ mGroup \in held)

\* start() succeeds: the session begins
StartSucceeds == ~mStarted /\ mStarted'

\* C16: a successful start() leaves the lost-byte carryover, the cursor
\* and the received-frame count as the constructor leaves them, whatever
\* the session before left behind
C16_StartResetsSession ==
    [][StartSucceeds => /\ mPrevLostBytes' = 0
                        /\ mPrevSampleTimeUs' = 0
                        /\ mNumFramesReceived' = 0]_vars

\* the pass called the device and got n <= 0
DeviceReadFails == ReadPass /\ readLocals'.deviceRead /\ readLocals'.n <= 0

\* C17: when the device read returns n <= 0, read() returns an error and
\* no buffer, the buffer is back in the pool, the session stays started
\* with the mutex free, and the cursor holds no added duration: it is as
\* before, or is the start time just fixed when this was the first pass
\* of the session
C17_DeviceReadFailure ==
    [][DeviceReadFails
          => /\ readPc' = "idle" /\ mLock' = "none"
             /\ ret'.op = "read" /\ ret'.status # OK /\ ret'.out = NoBuffer
             /\ poolFree' /\ held' = held
             /\ mStarted' /\ produced' = produced
             /\ mPrevSampleTimeUs' =
                   IF record.position = 0 /\ mPrevSampleTimeUs = 0
                   THEN mStartTimeUs' ELSE mPrevSampleTimeUs]_vars

C17_Witness ==
    /\ readPc = "idle" /\ ret.op = "read" /\ ret.status = UNKNOWN_ERROR
    /\ readLocals.deviceRead /\ readLocals.n <= 0
    /\ mStarted /\ poolFree /\ mLock = "none"

\* C19: a buffer leaves the queue of the callback only at its head and
\* into the hands of the consumer, through a read() that returns it
C19_QueueDrainedByRead ==
    [][Len(mBuffersReceived') < Len(mBuffersReceived)
          => /\ mBuffersReceived' = Tail(mBuffersReceived)
             /\ ret'.op = "read" /\ ret'.status = OK
             /\ ret'.out = Head(mBuffersReceived)]_vars

\* the first buffer produced in the session of buffer i
FirstOfSession(i) ==
    \A j \in 1..(i - 1) : produced[j].session # produced[i].session

\* C20: in each session the anchor time is on the first buffer produced
\* and on no other
C20_AnchorOnFirstBufferOnly ==
    \A i \in 1..Len(produced) : produced[i].anchor <=> FirstOfSession(i)

====
